---- MODULE Spec2Model ----
(***************************************************************************)
(* A model of the archiver (src/src/main.rs): one run of main, from the    *)
(* parsed command line to the release of the output file (Spec), the same  *)
(* run over other inputs (SpecTrees, SpecNames), main up to the return of  *)
(* resolve_paths (SpecResolve), and sanitize_path called by itself         *)
(* (SpecSanitize).                                                         *)
(*                                                                         *)
(* A path is a sequence of components; a component (a file name) is a      *)
(* sequence of tokens, where the token "." is the dot character and every  *)
(* other token is a dot-free piece of text: "d/b.txt" is                   *)
(* << <<"d">>, <<"b", ".", "txt">> >>.  The component <<"/">> is the root. *)
(***************************************************************************)
EXTENDS Integers, Sequences, FiniteSets, TLC

\* ------------------------------------------------------------------ bounds

\* The longest --input list the model draws.
MaxArgs == 2
\* How many times another process may rewrite an input file during the run.
MaxMods == 1
\* How many compressed blocks the flate2 encoders hold back before a write
\* to them first dumps the pending output into the file.
EncBufCap == 2
\* The length of calculate_md5's read buffer (4194304 bytes in the source),
\* scaled to the few bytes a file of the model holds: a file of two bytes
\* takes two reads.
BufLen == 1

\* ------------------------------------------------------------------ paths

Dot == "."
Root == <<"/">>

A_path   == << <<"a">> >>
D_path   == << <<"d">> >>
DB_path  == << <<"d">>, <<"b", Dot, "txt">> >>
DS_path  == << <<"d">>, <<"s">> >>
DSC_path == << <<"d">>, <<"s">>, <<"c">> >>
E_path   == << <<"e">> >>
ES_path  == << <<"e">>, <<"s">> >>
M_path   == << <<"m">> >>
R_path   == << <<"r", Dot, "csv">> >>
\* "./a": the file a, named through the current directory.
DotA_path == << <<Dot>>, <<"a">> >>
\* A file of the working directory that is called meta.json.
MJ_path  == << <<"meta", Dot, "json">> >>
\* The directory o, the archive an earlier run with gzip left in it, and the
\* --output argument that names that archive again.
O_path   == << <<"o">> >>
OG_path  == << <<"o">>, <<"r", Dot, "tar", Dot, "gz">> >>
OR_path  == << <<"o">>, <<"r", Dot, "csv">> >>
Cwd      == << Root, <<"w">> >>

\* enum Comp and its Display implementation.
Comp == {"Bzip2", "Gzip", "Zlib"}

CompFmt(c) ==
    CASE c = "Bzip2" -> "bz2"
      [] c = "Gzip"  -> "gz"
      [] c = "Zlib"  -> "zlib"

\* The archives that lie on disk before the run starts: in the working
\* directory one left over from an earlier run for every compression kind, and
\* the one in the directory o.
OldArchives == { << <<"r", Dot, "tar", Dot, CompFmt(c)>> >> : c \in Comp } \cup {OG_path}

\* The directories of the file system and what fs::read_dir lists in each.
Dirs == {D_path, DS_path, E_path, ES_path, O_path, Cwd}

Listing(dir) ==
    CASE dir = D_path  -> <<DB_path, DS_path>>
      [] dir = DS_path -> <<DSC_path>>
      [] dir = E_path  -> <<ES_path>>
      [] dir = O_path  -> <<OG_path>>
      [] OTHER         -> << >>

\* The regular files that can be given as, or found below, an input.
InputFiles == {A_path, DB_path, DSC_path, MJ_path}

\* The file or directory a path leads to: "." components lead nowhere else.
Canon(p) == SelectSeq(p, LAMBDA c : c # <<Dot>>)

IsDir(p)  == Canon(p) \in Dirs
IsFile(p) == Canon(p) \in InputFiles \cup OldArchives
Exists(p) == IsDir(p) \/ IsFile(p)

\* What --input may name: a file, a directory tree, a missing path.
InputPaths == {A_path, D_path, M_path}

\* What --output may be: absent, or a file name with an extension.
OutputArgs == { {}, {R_path} }

\* What sanitize_path is asked about when it is called by itself: a file name
\* with one extension, with none, with two, with a dot at its end, a hidden
\* name, a hidden name with an extension; in the working directory, in a
\* directory, in a directory that may not exist.
OutNames == { <<"r", Dot, "csv">>, <<"r">>, <<"r", Dot, "tar", Dot, "gz">>,
              <<"r", Dot>>, <<Dot, "h">>, <<Dot, "a", Dot, "b">> }
OutParents == { << >>, D_path, << <<"x">> >> }
OutPaths == { Append(par, name) : par \in OutParents, name \in OutNames }
\* What the file system holds at a path when the function asks.
PathKinds == {"missing", "file", "dir"}

\* The contents a file can have.
Bytes == {1, 2}
Contents == { <<b>> : b \in Bytes } \cup { <<1, 2>> }

SeqsUpTo(S, n) == UNION { [1..k -> S] : k \in 0..n }

\* -------------------------------------------------- std::path::Path methods

\* Path::file_name: the last component, unless the path is empty or ends in
\* the root.
HasFileName(p) == p # << >> /\ p[Len(p)] # Root
FileName(p) == p[Len(p)]
Parent(p) == SubSeq(p, 1, Len(p) - 1)

DotPositions(name) == { i \in 1..Len(name) : name[i] = Dot }
LastDot(name) == CHOOSE i \in DotPositions(name) : \A j \in DotPositions(name) : j <= i
FirstDot(name) == CHOOSE i \in DotPositions(name) : \A j \in DotPositions(name) : i <= j

\* Path::extension is Some: the file name has a dot that is not its first
\* character (rsplit_file_at_dot).
HasExtension(p) ==
    /\ HasFileName(p)
    /\ DotPositions(FileName(p)) # {}
    /\ LastDot(FileName(p)) > 1

\* Path::file_stem: the file name without its last extension.
FileStem(name) ==
    IF DotPositions(name) # {} /\ LastDot(name) > 1
    THEN SubSeq(name, 1, LastDot(name) - 1)
    ELSE name

\* str::split_once('.').0: what lies before the first dot.
SplitOnceStem(name) == SubSeq(name, 1, FirstDot(name) - 1)

\* Path::with_file_name: the last component replaced; an empty name leaves
\* the parent (with a trailing separator, which components ignore).
WithFileName(p, name) ==
    LET base == IF HasFileName(p) THEN Parent(p) ELSE p
    IN  IF name = << >> THEN base ELSE Append(base, name)

\* Path::with_extension: a path without a file name is returned unchanged.
WithExtension(p, ext) ==
    IF ~HasFileName(p) THEN p
    ELSE Append(Parent(p), FileStem(FileName(p)) \o <<Dot>> \o ext)

\* sanitize_path(path, compression).  isDir is what path.is_dir() answers:
\* the one question the function asks the file system.
sanitize_path(path, compression, isDir) ==
    LET p1 == IF ~isDir
              THEN IF HasExtension(path)
                   THEN WithFileName(path, SplitOnceStem(FileName(path)))
                   ELSE path
              ELSE Append(path, <<"out">>)
    IN  WithExtension(p1, <<"tar", Dot, CompFmt(compression)>>)

\* OsStr::to_string_lossy: bytes that are not UTF-8 become U+FFFD.
ToStringLossy(p) ==
    [i \in DOMAIN p |->
        [j \in DOMAIN p[i] |-> IF p[i][j] = "xFF" THEN "uFFFD" ELSE p[i][j]]]

\* ------------------------------------------------------------ path resolver

\* read_dir as it would be if it did not go into the directories it finds.
read_dir_flat(dir, entries, readable) ==
    IF IsDir(dir)
    THEN IF readable
         THEN [err |-> "none",
               entries |-> entries \o SelectSeq(Listing(dir), LAMBDA p : ~IsDir(p))]
         ELSE [err |-> "IOFailure", entries |-> entries]
    ELSE [err |-> "none", entries |-> entries]

RECURSIVE read_dir(_, _, _), ReadEntries(_, _, _, _)

\* The for loop of read_dir over the listing, from its i-th entry on.
ReadEntries(list, i, entries, readable) ==
    IF i > Len(list) THEN [err |-> "none", entries |-> entries]
    ELSE LET path == list[i]
             r == IF IsDir(path)
                  THEN read_dir(path, entries, readable)
                  ELSE [err |-> "none", entries |-> Append(entries, path)]
         IN  IF r.err # "none" THEN r
             ELSE ReadEntries(list, i + 1, r.entries, readable)

\* readable: whether fs::read_dir succeeds.
read_dir(dir, entries, readable) ==
    IF IsDir(dir)
    THEN IF readable
         THEN ReadEntries(Listing(dir), 1, entries, readable)
         ELSE [err |-> "IOFailure", entries |-> entries]
    ELSE [err |-> "none", entries |-> entries]

RECURSIVE ResolveFrom(_, _, _, _)

\* The for loop of resolve_paths, from the i-th argument on.
ResolveFrom(paths, i, entries, readable) ==
    IF i > Len(paths) THEN [err |-> "none", entries |-> entries]
    ELSE LET path == paths[i]
         IN  IF ~Exists(path) THEN [err |-> "PathNotFound", entries |-> entries]
             ELSE IF IsFile(path)
             THEN ResolveFrom(paths, i + 1, Append(entries, path), readable)
             ELSE LET r == read_dir(path, entries, readable)
                  IN  IF r.err # "none" THEN r
                      ELSE ResolveFrom(paths, i + 1, r.entries, readable)

\* resolve_paths as it would be if it refused a list that yields no file.
resolve_paths_nonempty(paths, readable) ==
    LET r == ResolveFrom(paths, 1, << >>, readable)
    IN  IF r.err = "none" /\ r.entries = << >>
        THEN [err |-> "PathNotFound", entries |-> << >>]
        ELSE r

\* resolve_paths as it would be if a missing argument were passed over.
resolve_paths_skip(paths, readable) ==
    ResolveFrom(SelectSeq(paths, LAMBDA p : Exists(p)), 1, << >>, readable)

resolve_paths(paths, readable) == ResolveFrom(paths, 1, << >>, readable)

\* ------------------------------------------------------------ digest engine

\* md5::Context::consume: the running state folded over one chunk.
RECURSIVE Consume(_, _)
Consume(ctx, chunk) ==
    IF chunk = << >> THEN ctx
    ELSE Consume((ctx * 31 + Head(chunk)) % 256, Tail(chunk))

\* The read loop of calculate_md5: chunks of at most BufLen bytes until a
\* read returns 0.
RECURSIVE ReadLoop(_, _, _)
ReadLoop(data, pos, ctx) ==
    LET n == IF Len(data) - pos < BufLen THEN Len(data) - pos ELSE BufLen
    IN  IF n = 0 THEN ctx
        ELSE ReadLoop(data, pos + n, Consume(ctx, SubSeq(data, pos + 1, pos + n)))

\* calculate_md5 as it would be if it read the file once and did not loop.
calculate_md5_once(data) ==
    Consume(7, SubSeq(data, 1, IF Len(data) < BufLen THEN Len(data) ELSE BufLen))

calculate_md5(data) == ReadLoop(data, 0, 7)

\* The digest of a byte string taken in one piece.
Md5(data) == Consume(7, data)

\* format!("{:x}", hash): two hexadecimal digits per byte, as digit values.
Hex(h) == << h \div 16, h % 16 >>

\* ------------------------------------------------- container and compressor

\* std::fs::Metadata of an input file, as Builder::append_file reads it
\* (HeaderMode::Complete copies mode, owner, group and mtime into the header).
FileMeta(p) == [mode |-> 493, uid |-> 1000, gid |-> 1000, mtime |-> 3]

\* SystemTime::now().duration_since(UNIX_EPOCH): seconds, negative when the
\* clock stands before the epoch.
ClockReadings == {-1, 5}

\* Header::set_path: the components of the path, "." components left out.
HeaderPath(path) == SelectSeq(path, LAMBDA c : c # <<Dot>>)

\* The header Builder::append_file builds from the open file's metadata.
FileHeader(path, size) ==
    [t |-> "hdr", by |-> "append_file", name |-> HeaderPath(path), size |-> size,
     mode |-> FileMeta(path).mode, uid |-> FileMeta(path).uid,
     gid |-> FileMeta(path).gid, mtime |-> FileMeta(path).mtime, type |-> "file"]

\* create_header(path, size), with the clock reading now.
create_header(path, size, now) ==
    [t |-> "hdr", by |-> "append", name |-> HeaderPath(path), size |-> size,
     mode |-> 420, uid |-> 0, gid |-> 0, mtime |-> now, type |-> "file"]

DataBlock(bytes) == [t |-> "data", bytes |-> bytes]
\* pad_zeroes: zero bytes up to the next multiple of the 512-byte block.
PadBlock(len) == [t |-> "pad", n |-> (512 - (len % 512)) % 512]
\* Builder::finish: the two zero blocks that end the archive.
EoaBlock == [t |-> "eoa"]

\* Path::new("meta.json"), the name line 80 gives the manifest's entry.
MetaPath == << <<"meta", Dot, "json">> >>

\* create_encoder: the writer the container is built on.  bzip2::read::BzEncoder
\* is the read-side encoder; as a writer it hands every write to the file as
\* it is.  The flate2 write-side encoders compress and buffer.
create_encoder(c) ==
    CASE c = "Bzip2" -> "bzip2::read::BzEncoder"
      [] c = "Gzip"  -> "flate2::write::GzEncoder"
      [] c = "Zlib"  -> "flate2::write::ZlibEncoder"

PassThrough(e) == e = "bzip2::read::BzEncoder"

Z(e, b) == [t |-> "z", enc |-> e, of |-> b]
GzHeader == [t |-> "gzheader"]
Trailer(e) == [t |-> "trailer", enc |-> e]

\* The gzip header goes to the file with the first write or at finish.
NeedHeader(e, file) == e = "flate2::write::GzEncoder" /\ file = << >>

\* One write_all of block b to the encoder e.  st = [buf, file, ok, n]: the
\* encoder's pending output, the file's contents, whether every write so far
\* succeeded, and how many blocks were accepted.  ioOk: whether the file
\* accepts what is written to it during this call.
EncWriteOne(e, st, b, ioOk) ==
    IF PassThrough(e)
    THEN IF ioOk
         THEN [st EXCEPT !.file = Append(@, b), !.n = @ + 1]
         ELSE [st EXCEPT !.ok = FALSE]
    ELSE LET needHdr == NeedHeader(e, st.file)
             needDump == Len(st.buf) >= EncBufCap
         IN  IF (needHdr \/ needDump) /\ ~ioOk
             THEN [st EXCEPT !.ok = FALSE]
             ELSE [buf  |-> (IF needDump THEN << >> ELSE st.buf) \o <<Z(e, b)>>,
                   file |-> st.file \o (IF needHdr THEN <<GzHeader>> ELSE << >>)
                                    \o (IF needDump THEN st.buf ELSE << >>),
                   ok   |-> TRUE,
                   n    |-> st.n + 1]

RECURSIVE EncWriteAll(_, _, _, _)
EncWriteAll(e, st, blocks, ioOk) ==
    IF blocks = << >> \/ ~st.ok THEN st
    ELSE EncWriteAll(e, EncWriteOne(e, st, Head(blocks), ioOk), Tail(blocks), ioOk)

\* Drop of the encoder.  The flate2 encoders try_finish: the header if it is
\* still due, the pending output and the trailer go to the file.  The
\* read-side bzip2 encoder has nothing to write.
EncFinish(e, st, ioOk) ==
    IF PassThrough(e) THEN st
    ELSE IF ~ioOk THEN [st EXCEPT !.ok = FALSE]
    ELSE [buf  |-> << >>,
          file |-> st.file \o (IF NeedHeader(e, st.file) THEN <<GzHeader>> ELSE << >>)
                           \o st.buf \o <<Trailer(e)>>,
          ok   |-> TRUE,
          n    |-> st.n]

\* What the file holds when everything written to the encoder has reached it
\* and the encoder has finished.
RECURSIVE ZAll(_, _)
ZAll(e, blocks) ==
    IF blocks = << >> THEN << >> ELSE <<Z(e, Head(blocks))>> \o ZAll(e, Tail(blocks))

FullOutput(e, blocks) ==
    IF PassThrough(e) THEN blocks
    ELSE (IF e = "flate2::write::GzEncoder" THEN <<GzHeader>> ELSE << >>)
         \o ZAll(e, blocks) \o <<Trailer(e)>>

\* ----------------------------------------------------------------- manifest

\* The keys of the checksums map in the order of their strings: json! turns
\* the map into a serde_json::Map, which keeps its keys sorted.
KeyOrder == << ToStringLossy(DotA_path), ToStringLossy(A_path), ToStringLossy(DB_path),
              ToStringLossy(DSC_path), ToStringLossy(MJ_path), ToStringLossy(OG_path) >>
SortedKeys(map) == SelectSeq(KeyOrder, LAMBDA k : k \in DOMAIN map)

\* serde_json::to_vec of json!({"timestamp": now, "checksums": hashes}): the
\* members of an object in the order of their names.
to_vec(now, checksums) ==
    LET order == SortedKeys(checksums)
    IN  [i \in DOMAIN order |->
            [f |-> "checksums", k |-> order[i], v |-> checksums[order[i]]]]
        \o << [f |-> "timestamp", k |-> << >>, v |-> <<now>>] >>

\* HashMap::insert: a key that is present has its value replaced.
Insert(map, key, val) ==
    [k \in DOMAIN map \cup {key} |-> IF k = key THEN val ELSE map[k]]

\* -------------------------------------------------------------------- state

VARIABLES
    args,       \* cli.input
    outArg,     \* cli.output: {} or {path}
    comp,       \* cli.compression
    files,      \* the bytes of every input file, as they are on disk now
    mods,       \* how often another process has rewritten an input file
    disk,       \* the contents of the archives on disk, by path
    pc,         \* where main stands
    result,     \* "running", then what the process ends with
    output,     \* the sanitized output path
    all_files,  \* what resolve_paths returned
    idx,        \* the for loop's position in all_files
    hash,       \* the digest calculate_md5 returned for the current file
    hashes,     \* the checksums map
    stream,     \* the blocks the container writer has written to the encoder
    encbuf,     \* the encoder's pending output
    finished,   \* Builder's flag: the end-of-archive marker was written
    released,   \* the owners dropped so far, in order
    fault,      \* the first failure of the environment: what failed, at which file
    calls       \* sanitize_path called by itself: arguments, file system, result

vars == <<args, outArg, comp, files, mods, disk, pc, result, output, all_files,
          idx, hash, hashes, stream, encbuf, finished, released, fault, calls>>

cliVars == <<args, outArg, comp>>

InitFiles == [p \in InputFiles |-> IF p = A_path THEN <<1>> ELSE <<1, 2>>]
InitDisk == [p \in OldArchives |-> << [t |-> "old"] >>]
NoFault == [op |-> "none", idx |-> 0]

\* The state main starts in, for a command line drawn from the given --input
\* paths and --output arguments.
InitRun(inputs, outputs) ==
    /\ args \in SeqsUpTo(inputs, MaxArgs)
    /\ outArg \in outputs
    /\ comp \in Comp
    /\ files = InitFiles
    /\ mods = 0
    /\ disk = InitDisk
    /\ pc = "sanitize"
    /\ result = "running"
    /\ output = << >>
    /\ all_files = << >>
    /\ idx = 0
    /\ hash = 0
    /\ hashes = << >>
    /\ stream = << >>
    /\ encbuf = << >>
    /\ finished = FALSE
    /\ released = << >>
    /\ fault = NoFault
    /\ calls = << >>

Init == InitRun(InputPaths, OutputArgs)

\* What one block of an archive on disk reads as: an archive is bytes like any
\* other file's.
ByteOf(block) == IF block.t = "old" THEN 1 ELSE 2

\* The bytes a read of the file at a path returns now: an input file's, or
\* those of an archive on disk, the run's own output included.
FileBytes(p) ==
    IF Canon(p) \in DOMAIN disk
    THEN [i \in DOMAIN disk[Canon(p)] |-> ByteOf(disk[Canon(p)][i])]
    ELSE files[Canon(p)]

\* The first failure of the environment is kept.
Faulted(op) == IF fault.op = "none" THEN [op |-> op, idx |-> idx] ELSE fault

enc == create_encoder(comp)

\* The encoder and the output file as the write operators take them.
EncState == [buf |-> encbuf, file |-> disk[output], ok |-> TRUE, n |-> 0]

\* The variables a write to the encoder changes.
Written(st, blocks) ==
    /\ encbuf' = st.buf
    /\ disk' = [disk EXCEPT ![output] = st.file]
    /\ stream' = stream \o SubSeq(blocks, 1, st.n)

\* An error or a panic leaves main: the locals are dropped.
Leave(res) ==
    /\ result' = res
    /\ pc' = "drop_builder"

\* The loop as it would be if it stopped one file early.
LoopNext_OffByOne(i, n) == IF i + 1 < n THEN "digest" ELSE "manifest"

\* The for loop of lines 65-73: what follows the i-th of n files.
LoopNext(i, n) == IF i < n THEN "digest" ELSE "manifest"

\* ------------------------------------------------------------------ actions

\* Lines 52-57: the output path, from --output or the current directory.
Sanitize ==
    /\ pc = "sanitize"
    /\ \E cwdOk \in BOOLEAN :
        IF outArg = {} /\ ~cwdOk
        THEN /\ result' = "Panic"
             /\ pc' = "done"
             /\ fault' = Faulted("current_dir")
             /\ UNCHANGED output
        ELSE /\ LET path == IF outArg = {} THEN Cwd ELSE CHOOSE p \in outArg : TRUE
                IN  output' = sanitize_path(path, comp, IsDir(path))
             /\ pc' = "resolve"
             /\ UNCHANGED <<result, fault>>
    /\ UNCHANGED <<calls, cliVars, files, mods, disk, all_files, idx, hash, hashes,
                   stream, encbuf, finished, released>>

\* Line 58: resolve_paths(cli.input)?
Resolve ==
    /\ pc = "resolve"
    /\ \E readable \in BOOLEAN :
        LET r == resolve_paths(args, readable)
        IN  IF r.err = "none"
            THEN /\ all_files' = r.entries
                 /\ pc' = "create"
                 /\ UNCHANGED <<result, fault>>
            ELSE /\ result' = r.err
                 /\ pc' = "done"
                 /\ fault' = IF r.err = "IOFailure" THEN Faulted("read_dir") ELSE fault
                 /\ UNCHANGED all_files
    /\ UNCHANGED <<calls, cliVars, files, mods, disk, output, idx, hash, hashes,
                   stream, encbuf, finished, released>>

\* Line 61: File::create(output)?  An empty path cannot be created.
CreateOutput ==
    /\ pc = "create"
    /\ \E ioOk \in BOOLEAN :
        IF ioOk /\ output # << >>
        THEN /\ disk' = [p \in DOMAIN disk \cup {output} |->
                            IF p = output THEN << >> ELSE disk[p]]
             /\ pc' = "encoder"
             /\ UNCHANGED <<result, fault>>
        ELSE /\ result' = "IOFailure"
             /\ pc' = "done"
             /\ fault' = Faulted("create")
             /\ UNCHANGED disk
    /\ UNCHANGED <<calls, cliVars, files, mods, output, all_files, idx, hash, hashes,
                   stream, encbuf, finished, released>>

\* Lines 62-65: the encoder, the builder, and the entry into the for loop.
CreateEncoder ==
    /\ pc = "encoder"
    /\ idx' = 1
    /\ pc' = LoopNext(0, Len(all_files))
    /\ UNCHANGED <<calls, cliVars, files, mods, disk, result, output, all_files, hash,
                   hashes, stream, encbuf, finished, released, fault>>

\* Line 66: calculate_md5(&file_path)?
CalculateMd5 ==
    /\ pc = "digest"
    /\ \E ioOk \in BOOLEAN :
        IF ioOk
        THEN /\ hash' = calculate_md5(FileBytes(all_files[idx]))
             /\ pc' = "open"
             /\ UNCHANGED <<result, fault>>
        ELSE /\ Leave("IOFailure")
             /\ fault' = Faulted("digest")
             /\ UNCHANGED hash
    /\ UNCHANGED <<calls, cliVars, files, mods, disk, output, all_files, idx, hashes,
                   stream, encbuf, finished, released>>

\* Line 67 as it would be if a file that cannot be opened were skipped.
OpenFile_Skip ==
    /\ pc = "open"
    /\ \E ioOk \in BOOLEAN :
        IF ioOk
        THEN /\ pc' = "append"
             /\ UNCHANGED <<idx, fault>>
        ELSE /\ pc' = LoopNext(idx, Len(all_files))
             /\ idx' = idx + 1
             /\ fault' = Faulted("open")
    /\ UNCHANGED <<calls, cliVars, files, mods, disk, result, output, all_files, hash,
                   hashes, stream, encbuf, finished, released>>

\* Line 67: File::open(&file_path)?
OpenFile ==
    /\ pc = "open"
    /\ \E ioOk \in BOOLEAN :
        IF ioOk
        THEN /\ pc' = "append"
             /\ UNCHANGED <<result, fault>>
        ELSE /\ Leave("IOFailure")
             /\ fault' = Faulted("open")
    /\ UNCHANGED <<calls, cliVars, files, mods, disk, output, all_files, idx, hash,
                   hashes, stream, encbuf, finished, released>>

\* Line 68, first half: append_file reads the file's metadata, builds the
\* header from it and writes the header.
AppendFileHeader ==
    /\ pc = "append"
    /\ \E ioOk \in BOOLEAN :
        LET path == all_files[idx]
            blocks == << FileHeader(path, Len(FileBytes(path))) >>
            st == EncWriteAll(enc, EncState, blocks, ioOk)
        IN  /\ Written(st, blocks)
            /\ IF st.ok
               THEN /\ pc' = "copy"
                    /\ UNCHANGED <<result, fault>>
               ELSE /\ Leave("IOFailure")
                    /\ fault' = Faulted("append")
    /\ UNCHANGED <<calls, cliVars, files, mods, output, all_files, idx, hash, hashes,
                   finished, released>>

\* Line 68, second half: io::copy of the file's bytes to the end of the
\* file, then the padding.
AppendFileData ==
    /\ pc = "copy"
    /\ \E ioOk \in BOOLEAN :
        LET bytes == FileBytes(all_files[idx])
            blocks == << DataBlock(bytes), PadBlock(Len(bytes)) >>
            st == EncWriteAll(enc, EncState, blocks, ioOk)
        IN  /\ Written(st, blocks)
            /\ IF st.ok
               THEN /\ pc' = "insert"
                    /\ UNCHANGED <<result, fault>>
               ELSE /\ Leave("IOFailure")
                    /\ fault' = Faulted("append")
    /\ UNCHANGED <<calls, cliVars, files, mods, output, all_files, idx, hash, hashes,
                   finished, released>>

\* Lines 69-73 as they would be if the manifest were appended inside the loop.
InsertHash_WithManifest ==
    /\ pc = "insert"
    /\ hashes' = Insert(hashes, ToStringLossy(all_files[idx]), Hex(hash))
    /\ idx' = idx + 1
    /\ pc' = LoopNext(idx, Len(all_files))
    /\ LET data == to_vec(5, hashes')
           blocks == << create_header(MetaPath, Len(data), 5),
                        DataBlock(data), PadBlock(Len(data)) >>
           st == EncWriteAll(enc, EncState, blocks, TRUE)
       IN  Written(st, blocks)
    /\ UNCHANGED <<calls, cliVars, files, mods, result, output, all_files, hash,
                   finished, released, fault>>

\* Lines 69-73: hashes.insert(path, hex digest), and the loop goes on.
InsertHash ==
    /\ pc = "insert"
    /\ hashes' = Insert(hashes, ToStringLossy(all_files[idx]), Hex(hash))
    /\ idx' = idx + 1
    /\ pc' = LoopNext(idx, Len(all_files))
    /\ UNCHANGED <<calls, cliVars, files, mods, disk, result, output, all_files, hash,
                   stream, encbuf, finished, released, fault>>

\* Lines 74-82: the manifest is built (current_time), serialized, given a
\* header (current_time again) and appended.
AppendManifest ==
    /\ pc = "manifest"
    /\ \E now \in ClockReadings, mtime \in ClockReadings, ioOk \in BOOLEAN :
        IF now < 0 \/ mtime < 0
        THEN /\ Leave("Panic")
             /\ fault' = Faulted("clock")
             /\ UNCHANGED <<disk, stream, encbuf>>
        ELSE LET data == to_vec(now, hashes)
                 blocks == << create_header(MetaPath, Len(data), mtime),
                              DataBlock(data), PadBlock(Len(data)) >>
                 st == EncWriteAll(enc, EncState, blocks, ioOk)
             IN  /\ Written(st, blocks)
                 /\ IF st.ok
                    THEN /\ pc' = "finish"
                         /\ UNCHANGED <<result, fault>>
                    ELSE /\ Leave("IOFailure")
                         /\ fault' = Faulted("append_meta")
    /\ UNCHANGED <<calls, cliVars, files, mods, output, all_files, idx, hash, hashes,
                   finished, released>>

\* Line 83: tar.finish()?  The marker is written unless it was before.
Finish ==
    /\ pc = "finish"
    /\ \E ioOk \in BOOLEAN :
        LET blocks == IF finished THEN << >> ELSE << EoaBlock >>
            st == EncWriteAll(enc, EncState, blocks, ioOk)
        IN  /\ Written(st, blocks)
            /\ finished' = TRUE
            /\ IF st.ok
               THEN /\ pc' = "return"
                    /\ UNCHANGED <<result, fault>>
               ELSE /\ Leave("IOFailure")
                    /\ fault' = Faulted("finish")
    /\ UNCHANGED <<calls, cliVars, files, mods, output, all_files, idx, hash, hashes,
                   released>>

\* Line 84: Ok(()) is the value main returns; the locals are dropped next.
ReturnOk ==
    /\ pc = "return"
    /\ Leave("Ok")
    /\ UNCHANGED <<calls, cliVars, files, mods, disk, output, all_files, idx, hash,
                   hashes, stream, encbuf, finished, released, fault>>

\* Drop of tar::Builder as it would be if finish() did not look at its flag.
DropBuilder_Always ==
    /\ pc = "drop_builder"
    /\ \E ioOk \in BOOLEAN :
        LET blocks == << EoaBlock >>
            st == EncWriteAll(enc, EncState, blocks, ioOk)
        IN  /\ Written(st, blocks)
            /\ fault' = IF st.ok THEN fault ELSE Faulted("drop_builder")
    /\ finished' = TRUE
    /\ released' = Append(released, "builder")
    /\ pc' = "drop_encoder"
    /\ UNCHANGED <<calls, cliVars, files, mods, result, output, all_files, idx, hash,
                   hashes>>

\* Drop of tar::Builder: finish(), its error ignored.
DropBuilder ==
    /\ pc = "drop_builder"
    /\ \E ioOk \in BOOLEAN :
        LET blocks == IF finished THEN << >> ELSE << EoaBlock >>
            st == EncWriteAll(enc, EncState, blocks, ioOk)
        IN  /\ Written(st, blocks)
            /\ fault' = IF st.ok THEN fault ELSE Faulted("drop_builder")
    /\ finished' = TRUE
    /\ released' = Append(released, "builder")
    /\ pc' = "drop_encoder"
    /\ UNCHANGED <<calls, cliVars, files, mods, result, output, all_files, idx, hash,
                   hashes>>

\* Drop of the encoder: the flate2 encoders finish the stream, the error
\* ignored.
DropEncoder ==
    /\ pc = "drop_encoder"
    /\ \E ioOk \in BOOLEAN :
        LET st == EncFinish(enc, EncState, ioOk)
        IN  /\ Written(st, << >>)
            /\ fault' = IF st.ok THEN fault ELSE Faulted("drop_encoder")
    /\ released' = Append(released, "encoder")
    /\ pc' = "close"
    /\ UNCHANGED <<calls, cliVars, files, mods, result, output, all_files, idx, hash,
                   hashes, finished>>

\* Drop of the File: the output file is closed.
CloseFile ==
    /\ pc = "close"
    /\ released' = Append(released, "file")
    /\ pc' = "done"
    /\ UNCHANGED <<calls, cliVars, files, mods, disk, result, output, all_files, idx,
                   hash, hashes, stream, encbuf, finished, fault>>

\* Another process rewrites the input file the loop is working on, between
\* two of the run's accesses to it: after the digest pass, or after append_file
\* has read its size.  (A rewrite of any other file, or at any other time, is
\* to the run that file's contents when its turn comes.)
ModifyFile ==
    /\ pc \in {"open", "copy"}
    /\ mods < MaxMods
    /\ Canon(all_files[idx]) \in DOMAIN files
    /\ \E c \in Contents :
        /\ c # files[Canon(all_files[idx])]
        /\ files' = [files EXCEPT ![Canon(all_files[idx])] = c]
    /\ mods' = mods + 1
    /\ UNCHANGED <<calls, cliVars, disk, pc, result, output, all_files, idx, hash,
                   hashes, stream, encbuf, finished, released, fault>>

Next ==
    \/ Sanitize
    \/ Resolve
    \/ CreateOutput
    \/ CreateEncoder
    \/ CalculateMd5
    \/ OpenFile
    \/ AppendFileHeader
    \/ AppendFileData
    \/ InsertHash
    \/ AppendManifest
    \/ Finish
    \/ ReturnOk
    \/ DropBuilder
    \/ DropEncoder
    \/ CloseFile
    \/ ModifyFile

Spec == Init /\ [][Next]_vars

\* ------------------------------------------------- sanitize_path by itself

\* The variables of a run of main, which a call of sanitize_path by itself
\* leaves alone.
runVars == <<cliVars, files, mods, disk, pc, result, output, all_files, idx,
             hash, hashes, stream, encbuf, finished, released, fault>>

\* The call as it would be if the function asked path.exists() for
\* path.is_dir().
CallSanitize_Exists ==
    /\ Len(calls) < 2
    /\ \E path \in OutPaths, c \in Comp, kind \in PathKinds :
        /\ calls # << >> => path = calls[1].path /\ c = calls[1].compression
        /\ calls' = Append(calls,
                [path |-> path, compression |-> c, kind |-> kind,
                 result |-> sanitize_path(path, c, kind # "missing")])
    /\ UNCHANGED runVars

\* sanitize_path(path, compression) is called, and called once more with the
\* same arguments; what the file system holds at the path is whatever it
\* holds at the time of each call.
CallSanitize ==
    /\ Len(calls) < 2
    /\ \E path \in OutPaths, c \in Comp, kind \in PathKinds :
        /\ calls # << >> => path = calls[1].path /\ c = calls[1].compression
        /\ calls' = Append(calls,
                [path |-> path, compression |-> c, kind |-> kind,
                 result |-> sanitize_path(path, c, kind = "dir")])
    /\ UNCHANGED runVars

InitSanitize == InitRun({}, {{}}) /\ args = << >> /\ outArg = {} /\ comp = "Bzip2"

SpecSanitize == InitSanitize /\ [][CallSanitize]_vars

\* ------------------------------------------------- resolve_paths by itself

\* What resolve_paths is given when it is looked at by itself: files,
\* directory trees with and without files, directories inside them, a missing
\* path.
ResolveArgs == {A_path, D_path, DB_path, DS_path, E_path, ES_path, M_path}

InitResolve == InitRun(ResolveArgs, {{R_path}}) /\ comp = "Bzip2"

\* main up to the return of resolve_paths (lines 52-58).
NextResolve ==
    \/ Sanitize
    \/ Resolve

SpecResolve == InitResolve /\ [][NextResolve]_vars

\* ---------------------------------------------- runs over trees without files

\* A run whose inputs are directory trees that hold no regular file (e, and
\* the empty directory e/s inside it) and a file.
TreeInputs == {E_path, ES_path, A_path}

InitTrees == InitRun(TreeInputs, {{R_path}})

SpecTrees == InitTrees /\ [][Next]_vars

\* ------------------------------------- runs over names that meet other names

\* A run whose inputs are a file named through "." (./a), a file called
\* meta.json, and the directory o in which an earlier run left r.tar.gz, and
\* whose --output is o/r.csv, which with gzip names that archive.
NameInputs == {DotA_path, MJ_path, O_path}

InitNames == InitRun(NameInputs, {{OR_path}})

SpecNames == InitNames /\ [][Next]_vars

\* ------------------------------------------------------------- properties

\* The headers in a sequence of blocks, and where they stand in it.
Headers(blocks) == SelectSeq(blocks, LAMBDA b : b.t = "hdr")
FileHeaders(blocks) == SelectSeq(blocks, LAMBDA b : b.t = "hdr" /\ b.by = "append_file")
ManifestHeaders(blocks) == SelectSeq(blocks, LAMBDA b : b.t = "hdr" /\ b.by = "append")

Succeeded == pc = "done" /\ result = "Ok"
MissingArg == \E i \in DOMAIN args : ~Exists(args[i])
\* File::create has succeeded: the output file is new or was truncated.
Created == disk # InitDisk

\* C1: in every successful run exactly one manifest entry is appended, and it
\* is the last entry of the container; in every run, no entry is written
\* after a manifest entry.
C1_ManifestLast ==
    LET H == Headers(stream)
    IN  /\ \A i \in DOMAIN H : H[i].by = "append" => i = Len(H)
        /\ Succeeded =>
            /\ Len(ManifestHeaders(stream)) = 1
            /\ Len(stream) >= 4
            /\ stream[Len(stream) - 3].t = "hdr"
            /\ stream[Len(stream) - 3].by = "append"
            /\ stream[Len(stream)].t = "eoa"

\* A successful run that archived at least two files.
C1_Witness == Succeeded /\ Len(FileHeaders(stream)) >= 2

\* C2: File::create happens only after resolve_paths has returned Ok for all
\* arguments; when an argument is missing the output file is never created or
\* truncated, the run never succeeds, and it ends with the path-not-found error
\* (unless the current directory or a directory listing could not be read
\* before the missing argument was reached).
C2_NoOutputBeforeResolve ==
    /\ (Created \/ pc \notin {"sanitize", "resolve", "create", "done"}) =>
            /\ ~MissingArg
            /\ LET r == resolve_paths(args, TRUE)
               IN  r.err = "none" /\ all_files = r.entries
    /\ MissingArg =>
            /\ disk = InitDisk
            /\ result # "Ok"
            /\ (pc = "done" /\ fault = NoFault) => result = "PathNotFound"
    /\ result = "PathNotFound" => MissingArg /\ pc = "done"

\* A run that ended on a missing argument while an older archive lay at the
\* output path.
C2_Witness ==
    /\ pc = "done"
    /\ result = "PathNotFound"
    /\ output \in OldArchives
    /\ Len(args) = 2 /\ Exists(args[1])

\* C3: in a successful run, for every file entry of the container the digest
\* the checksums map holds under the entry's name is the MD5 of the bytes
\* written as the entry's payload.
C3_DigestMatchesPayload ==
    Succeeded =>
        \A j \in DOMAIN stream :
            (stream[j].t = "hdr" /\ stream[j].by = "append_file") =>
                /\ ToStringLossy(stream[j].name) \in DOMAIN hashes
                /\ hashes[ToStringLossy(stream[j].name)] = Hex(Md5(stream[j + 1].bytes))

\* C4: when the digest, the open or the append of the i-th file fails, the run
\* ends in failure at that step: the loop does not go on, no entry of a later
\* file and no manifest entry is written, no checksum of the i-th file is
\* recorded, and the output file stays on disk.
C4_AbortOnFileFailure ==
    fault.op \in {"digest", "open", "append"} =>
        /\ result = "IOFailure"
        /\ pc \in {"drop_builder", "drop_encoder", "close", "done"}
        /\ idx = fault.idx
        /\ Len(ManifestHeaders(stream)) = 0
        /\ Len(FileHeaders(stream)) \in {fault.idx - 1, fault.idx}
        /\ fault.op \in {"digest", "open"} => Len(FileHeaders(stream)) = fault.idx - 1
        /\ output \in DOMAIN disk

\* The first of several files failed while it was appended, and the run is over.
C4_Witness ==
    /\ pc = "done"
    /\ fault.op = "append"
    /\ fault.idx = 1
    /\ Len(all_files) >= 2

\* C5: the file entries written so far are, in order, the first files of what
\* resolve_paths returned; in a successful run they are all of them, followed
\* by the manifest entry.
C5_EntriesInResolverOrder ==
    LET F == FileHeaders(stream)
    IN  /\ Len(F) <= Len(all_files)
        /\ \A i \in DOMAIN F : F[i].name = HeaderPath(all_files[i])
        /\ Succeeded =>
            /\ Len(F) = Len(all_files)
            /\ Len(Headers(stream)) = Len(all_files) + 1
            /\ Headers(stream)[Len(all_files) + 1].by = "append"

\* A successful run over a directory tree followed by a single file.
C5_Witness ==
    /\ Succeeded
    /\ args = <<D_path, A_path>>
    /\ Len(FileHeaders(stream)) = 3

\* C6: when the manifest is built, the checksums map has as many keys as file
\* entries were written to the container.
C6_OneKeyPerFile ==
    pc \in {"finish", "return"} \/ Succeeded =>
        Cardinality(DOMAIN hashes) = Len(FileHeaders(stream))

\* C7: every header written to the container has mode 0644, owner 0, group 0,
\* the type of a regular file and a modification time read from the clock.
C7_FixedHeaderFields ==
    \A j \in DOMAIN stream :
        stream[j].t = "hdr" =>
            /\ stream[j].mode = 420
            /\ stream[j].uid = 0
            /\ stream[j].gid = 0
            /\ stream[j].type = "file"
            /\ stream[j].mtime \in ClockReadings

\* C8: once the output file is created, every way out of main releases the
\* container writer, then the encoder, then the file, each once; the
\* end-of-archive marker is written at most once and nothing after it; and
\* nothing is written to the container writer or the encoder after the
\* encoder was released, or to the file after it was closed.
ReleaseOrder == <<"builder", "encoder", "file">>

C8_State ==
    /\ Len(released) <= 3
    /\ released = SubSeq(ReleaseOrder, 1, Len(released))
    /\ released # << >> => Created
    /\ pc = "done" => released = (IF Created THEN ReleaseOrder ELSE << >>)
    /\ Len(released) >= 1 => finished
    /\ Cardinality({ j \in DOMAIN stream : stream[j].t = "eoa" }) <= 1
    /\ \A j \in DOMAIN stream : stream[j].t = "eoa" => j = Len(stream)

C8_Step ==
    /\ Len(released) >= 1 => stream' = stream
    /\ Len(released) >= 2 => encbuf' = encbuf
    /\ Len(released) >= 3 => disk' = disk
    /\ Len(released') >= Len(released)

C8_ReleaseInReverseOrder == [](C8_State) /\ [][C8_Step]_vars

\* A run that wrote an entry, panicked on the clock and has released all three
\* owners.
C8_Witness ==
    /\ pc = "done"
    /\ released = ReleaseOrder
    /\ result = "Panic"
    /\ Len(stream) >= 4

\* C9: main returns Ok only when everything written to the encoder, and the
\* encoder's end of stream, has reached the output file.
C9_SinkFailureReported ==
    Succeeded => disk[output] = FullOutput(enc, stream)

\* C10: in a successful run the size field of every header is the number of
\* payload bytes written after it.
C10_SizeMatchesPayload ==
    Succeeded =>
        \A j \in DOMAIN stream :
            stream[j].t = "hdr" => stream[j].size = Len(stream[j + 1].bytes)

\* What the file name of a result is to end in.
TarSuffix(c) == <<Dot, "tar", Dot, CompFmt(c)>>
\* The first '.'-delimited segment of a file name.
FirstSegment(name) == IF DotPositions(name) = {} THEN name ELSE SplitOnceStem(name)

\* C11: for every output path that is not an existing directory and every
\* compression kind, sanitize_path returns a path in the same parent directory
\* whose file name is the first '.'-delimited segment of the original file
\* name followed by ".tar.<suffix>"; for an existing directory it returns
\* "<dir>/out.tar.<suffix>".
C11_ResultForm ==
    \A i \in DOMAIN calls :
        LET k == calls[i]
        IN  IF k.kind = "dir"
            THEN k.result = Append(k.path, <<"out">> \o TarSuffix(k.compression))
            ELSE k.result = Append(Parent(k.path),
                                   FirstSegment(FileName(k.path)) \o TarSuffix(k.compression))

RegularFiles == InputFiles \cup OldArchives
IsPrefix(d, f) == Len(d) < Len(f) /\ SubSeq(f, 1, Len(d)) = d
\* The regular files at any depth below a directory.
FilesBelow(d) == { f \in RegularFiles : IsPrefix(d, f) }
\* Where a directory's listing has the entry through which f is reached.
ChildIndex(d, f) ==
    CHOOSE i \in DOMAIN Listing(d) : Listing(d)[i] = SubSeq(f, 1, Len(d) + 1)
\* f is met before g in a depth-first traversal that follows the listings:
\* where their ways part, f's branch is listed first.
RECURSIVE MetBefore(_, _, _)
MetBefore(d, f, g) ==
    IF ChildIndex(d, f) # ChildIndex(d, g)
    THEN ChildIndex(d, f) < ChildIndex(d, g)
    ELSE MetBefore(SubSeq(f, 1, Len(d) + 1), f, g)
\* The files below d, each once, in the order of the traversal.
Traversal(d) ==
    LET S == FilesBelow(d)
        n == Cardinality(S)
    IN  CHOOSE s \in [1..n -> S] :
            /\ \A i, j \in 1..n : i < j => s[i] # s[j] /\ MetBefore(d, s[i], s[j])
\* What one argument contributes, and what a list of arguments does.
Contribution(arg) == IF IsDir(arg) THEN Traversal(arg) ELSE <<arg>>
RECURSIVE Contributions(_)
Contributions(paths) ==
    IF paths = << >> THEN << >>
    ELSE Contribution(Head(paths)) \o Contributions(Tail(paths))

\* C13: when every path of the input list exists, what resolve_paths returns
\* holds no directory and no missing path; a regular-file argument stands in
\* it once per occurrence, in argument order; a directory argument is replaced,
\* at its position, by every regular file at any depth below it, each exactly
\* once, in depth-first traversal order.  Only a missing path makes
\* resolve_paths report PathNotFound.
C13_ResolvedSequence ==
    /\ pc = "create" =>
        /\ \A i \in DOMAIN all_files : IsFile(all_files[i])
        /\ all_files = Contributions(args)
    /\ (pc = "done" /\ result = "PathNotFound") => MissingArg

\* A file argument after a directory tree two levels deep.
C13_Witness ==
    /\ pc = "create"
    /\ args = <<D_path, A_path>>
    /\ Len(all_files) = 3

\* The input is one or more directory trees, none with a regular file in it.
OnlyEmptyTrees ==
    /\ args # << >>
    /\ \A i \in DOMAIN args : IsDir(args[i]) /\ FilesBelow(args[i]) = {}

\* C14: when the input is a directory tree that holds no regular file, only
\* empty directories, the run succeeds unless its environment fails it, and
\* the container holds exactly one entry, the manifest, with an empty
\* checksums mapping.
C14_EmptyTreeManifestOnly ==
    OnlyEmptyTrees =>
        /\ FileHeaders(stream) = << >>
        /\ (pc = "done" /\ fault = NoFault) => result = "Ok"
        /\ Succeeded =>
            /\ Len(stream) = 4
            /\ stream[1].t = "hdr" /\ stream[1].by = "append"
            /\ stream[1].name = MetaPath
            /\ stream[2].t = "data"
            /\ \A i \in DOMAIN stream[2].bytes : stream[2].bytes[i].f = "timestamp"
            /\ stream[4] = EoaBlock
            /\ fault = NoFault => disk[output] = FullOutput(enc, stream)

\* A successful run over the tree e, which holds the empty directory e/s.
C14_Witness ==
    /\ Succeeded
    /\ args = <<E_path>>
    /\ fault = NoFault

\* The compressing writer of each compression kind.
Compressor(c) ==
    CASE c = "Bzip2" -> "bzip2::write::BzEncoder"
      [] c = "Gzip"  -> "flate2::write::GzEncoder"
      [] c = "Zlib"  -> "flate2::write::ZlibEncoder"

\* The complete compressed form of a container stream.
CompressedForm(c, blocks) ==
    (IF c = "Gzip" THEN <<GzHeader>> ELSE << >>)
    \o ZAll(Compressor(c), blocks) \o <<Trailer(Compressor(c))>>

\* C15: for every compression kind, no block of the container reaches the
\* output file uncompressed, and when the run has ended successfully the
\* output file holds the complete compressed form of the container stream.
C15_EveryByteCompressed ==
    /\ Created =>
        \A i \in DOMAIN disk[output] :
            disk[output][i].t \in {"z", "gzheader", "trailer"}
    /\ Succeeded => disk[output] = CompressedForm(comp, stream)

\* The checksums of the first n resolved files are in the map.
Recorded(n) ==
    \A i \in 1..n : ToStringLossy(all_files[i]) \in DOMAIN hashes
\* The container ends with a file's complete entry: header, bytes, padding.
EntryAppended ==
    /\ Len(stream) >= 3
    /\ stream[Len(stream) - 2].t = "hdr" /\ stream[Len(stream) - 2].by = "append_file"
    /\ stream[Len(stream) - 1].t = "data"
    /\ stream[Len(stream)].t = "pad"

\* Where the loop stands, in terms of what has been written and recorded.
C16_State ==
    /\ pc \in {"digest", "open", "append"} =>
            Len(FileHeaders(stream)) = idx - 1 /\ Recorded(idx - 1)
    /\ pc \in {"open", "append", "copy", "insert"} /\ mods = 0 =>
            hash = Md5(FileBytes(all_files[idx]))
    /\ pc \in {"copy", "insert"} =>
            Len(FileHeaders(stream)) = idx /\ Recorded(idx - 1)
    /\ pc = "insert" => EntryAppended
    /\ ManifestHeaders(stream) # << >> =>
            Len(FileHeaders(stream)) = Len(all_files) /\ Recorded(Len(all_files))

\* What each step of the loop may follow.
C16_Step ==
    /\ hash' # hash => pc = "digest"
    /\ Len(FileHeaders(stream')) > Len(FileHeaders(stream)) => pc = "append"
    /\ hashes' # hashes =>
            pc = "insert" /\ result = "running" /\ EntryAppended
    /\ (pc' = "digest" /\ pc # "digest") =>
            /\ pc \in {"encoder", "insert"}
            /\ pc = "insert" => ToStringLossy(all_files[idx]) \in DOMAIN hashes'
    /\ Len(ManifestHeaders(stream')) > Len(ManifestHeaders(stream)) =>
            pc = "manifest" /\ Recorded(Len(all_files)) /\ idx = Len(all_files) + 1

\* C16: files are processed one at a time in the order digest, append,
\* record.  The digest in hand when a file's entry is started is that of the
\* whole file, read to its end; a checksum goes into the map only after the
\* file's entry was appended in full; the next file's digest pass starts only
\* after that; the manifest is built only after the checksum of the last file
\* was recorded.
C16_DigestAppendRecord == [](C16_State) /\ [][C16_Step]_vars

\* The digest pass of the second file starts: the first has its entry and its
\* checksum.
C16_Witness ==
    /\ pc = "digest"
    /\ idx = 2
    /\ Len(FileHeaders(stream)) = 1
    /\ Recorded(1)

\* C17: for every resolved file that has its entry, the entry name in the
\* header is the path as it was referenced, and the key of its checksum, once
\* recorded, is that same string; in a successful run the keys of the
\* checksums mapping are exactly the names of the file entries.
C17_KeyIsEntryName ==
    LET F == FileHeaders(stream)
    IN  /\ \A i \in DOMAIN F :
            /\ F[i].name = all_files[i]
            /\ i < idx => ToStringLossy(F[i].name) \in DOMAIN hashes
        /\ Succeeded =>
            DOMAIN hashes = { ToStringLossy(F[i].name) : i \in DOMAIN F }

\* C18: the file the run has created as its output is never the file the
\* loop is digesting or appending.
C18_OutputNotInput ==
    Created /\ pc \in {"digest", "open", "append", "copy", "insert"} =>
        Canon(all_files[idx]) # Canon(output)

\* C19: in every successful run the container holds exactly one entry named
\* meta.json, and the checksums mapping has no key meta.json.
C19_MetaNameReserved ==
    Succeeded =>
        /\ Cardinality({ i \in DOMAIN Headers(stream) :
                            Headers(stream)[i].name = MetaPath }) = 1
        /\ ToStringLossy(MetaPath) \notin DOMAIN hashes

====
